---- MODULE Spec2Model ----
(***************************************************************************)
(* State-machine model of backend/autoapply.py: the LinkedIn Easy Apply    *)
(* automation (ledger load/save, job discovery, the multi-step wizard of   *)
(* apply_to_job and the run loop of run_automation: Spec) and the field    *)
(* classifier, the form filler and the control search on one page          *)
(* (FormSpec), and the profile file under load_profile and setup_profile   *)
(* (ProfileSpec); and of backend/server.py: concurrent requests on the     *)
(* users and profiles of the store (ApiSpec) and sequences of requests on  *)
(* its templates, mappings and applications (StoreSpec).                   *)
(***************************************************************************)
EXTENDS Integers, Sequences, FiniteSets, TLC

(***************************************************************************)
(* Bounds of the model.                                                    *)
(***************************************************************************)
\* cards of a raw scan that are drawn freely (the rest is padding)
MaxCards == 2
\* processes started one after the other on the same ledger file
MaxRuns == 2
\* requests to the API, concurrent in ApiSpec, one after the other in StoreSpec
MaxRequests == 2

(***************************************************************************)
(* Program constants.                                                      *)
(***************************************************************************)
\* a ceiling that lets one more pass through
max_steps_off == 5 + 1

\* apply_to_job: max_steps = 5  # Safety limit
max_steps == 5
\* search_easy_apply_jobs: job_cards[:20]
ScanWindow == 20

JobIds == {"4123", "77"}

\* values of --max-apps, an int of either sign: below zero, zero, and up to
\* the number of candidates of a scan or beyond it
Caps == {-1, 0, 1, 2}

\* a search that asks for the terminal controls first
ButtonTexts_terminal_first == <<"Submit application", "Submit", "Next", "Review">>

\* the button texts tried by apply_to_job, in the order of the code
ButtonTexts == <<"Next", "Review", "Submit application", "Submit">>
Labels == {ButtonTexts[k] : k \in 1..Len(ButtonTexts)}
NoButton == "None"

\* Python slice s[:n]
Slice(s, n) ==
    IF n >= 0
    THEN SubSeq(s, 1, IF n < Len(s) THEN n ELSE Len(s))
    ELSE SubSeq(s, 1, IF Len(s) + n > 0 THEN Len(s) + n ELSE 0)

(***************************************************************************)
(* The ledger: applied_jobs in memory, applied_jobs.json on disk.          *)
(***************************************************************************)
\* JobApplication(...) built by apply_to_job
JobApplication(job_data) == [job_id |-> job_data.job_id, status |-> "applied"]

\* load_applied_jobs: the file's records, [] when the load raises
load_applied_jobs(file, ok) == IF ok THEN file ELSE <<>>

\* save_applied_jobs: the whole list replaces the file; an error is logged
\* and swallowed and the file keeps its content
save_applied_jobs(file, ledger, ok) == IF ok THEN ledger ELSE file

get_applied_job_ids(ledger) == {ledger[k].job_id : k \in 1..Len(ledger)}

(***************************************************************************)
(* Job discovery.                                                          *)
(***************************************************************************)
\* href of a card's link: no link element, a link that is not a job view,
\* or .../jobs/view/<id>?...
NoLink == [link |-> FALSE, view |-> FALSE, id |-> ""]
CardUrls ==
    {NoLink, [link |-> TRUE, view |-> FALSE, id |-> "4123"]}
        \cup {[link |-> TRUE, view |-> TRUE, id |-> j] : j \in JobIds \cup {""}}

\* a card without the Easy Apply text, and a card whose extraction raises:
\* both are skipped whatever else they hold
PadCard == [url |-> [link |-> TRUE, view |-> TRUE, id |-> "77"],
            easy_apply |-> FALSE, raises |-> FALSE]
RaisingCard == [url |-> [link |-> TRUE, view |-> TRUE, id |-> "4123"],
                easy_apply |-> TRUE, raises |-> TRUE]
Cards ==
    {RaisingCard, PadCard}
        \cup {[url |-> u, easy_apply |-> TRUE, raises |-> FALSE] : u \in CardUrls}

RECURSIVE Pad(_)
Pad(n) == IF n = 0 THEN <<>> ELSE <<PadCard>> \o Pad(n - 1)

RECURSIVE SeqsUpTo(_, _)
SeqsUpTo(S, n) ==
    IF n = 0 THEN {<<>>}
    ELSE LET shorter == SeqsUpTo(S, n - 1)
         IN  shorter \cup {Append(s, x) : s \in {t \in shorter : Len(t) = n - 1}, x \in S}

\* the raw scans: free cards after padding, so that all of them, or only the
\* first, are within the scan window
RawScans ==
    {Pad(p) \o t : p \in {ScanWindow - MaxCards, ScanWindow - 1},
                    t \in SeqsUpTo(Cards, MaxCards)}

\* job_url.split("/jobs/view/")[1].split("?")[0], "" without link or view part
ExtractJobId(url) == IF url.link /\ url.view THEN url.id ELSE ""

\* a discovery that forgets the ledger
IsCandidate_no_ledger(card, applied_job_ids) ==
    /\ ~card.raises
    /\ card.easy_apply
    /\ ExtractJobId(card.url) # ""

\* if easy_apply and job_id and job_id not in applied_job_ids
IsCandidate(card, applied_job_ids) ==
    /\ ~card.raises
    /\ card.easy_apply
    /\ ExtractJobId(card.url) # ""
    /\ ExtractJobId(card.url) \notin applied_job_ids

\* a scan loop that an error of one card ends: the cards after it are lost
RECURSIVE CollectJobs_stops(_, _)
CollectJobs_stops(cards, applied_job_ids) ==
    IF cards = <<>> \/ Head(cards).raises THEN <<>>
    ELSE (IF IsCandidate(Head(cards), applied_job_ids)
          THEN <<[job_id |-> ExtractJobId(Head(cards).url)]>>
          ELSE <<>>)
         \o CollectJobs_stops(Tail(cards), applied_job_ids)

\* for card in job_cards[:20], with the try/except/continue around the body
RECURSIVE CollectJobs(_, _)
CollectJobs(cards, applied_job_ids) ==
    IF cards = <<>> THEN <<>>
    ELSE (IF IsCandidate(Head(cards), applied_job_ids)
          THEN <<[job_id |-> ExtractJobId(Head(cards).url)]>>
          ELSE <<>>)
         \o CollectJobs(Tail(cards), applied_job_ids)

\* the value search_easy_apply_jobs returns for a scan and a ledger
SearchResult(cards, ledger) ==
    CollectJobs(Slice(cards, ScanWindow), get_applied_job_ids(ledger))

\* a discovery that marks what it found as applied
LedgerAfterDiscovery_marks(ledger, found) ==
    ledger \o [k \in 1..Len(found) |-> [job_id |-> found[k].job_id]]

\* self.applied_jobs after search_easy_apply_jobs returned `found`: the method
\* reads the ledger once (get_applied_job_ids) and never assigns or saves it
LedgerAfterDiscovery(ledger, found) == ledger

(***************************************************************************)
(* The wizard of apply_to_job.                                             *)
(***************************************************************************)
\* what the search for a control saw of each button text: the loop asks the
\* texts in order and stops at the first that is present and enabled
Sightings == [Labels -> {"absent", "disabled", "enabled", "unobserved"}]
Unobserved == [l \in Labels |-> "unobserved"]

\* a control search that forgets is_enabled()
Usable_present(sighting) == sighting \in {"enabled", "disabled"}

\* await button.count() > 0 and await button.is_enabled()
Usable(sighting) == sighting = "enabled"

\* the first button text of the list that is usable, None when there is none
RECURSIVE FirstUsableFrom(_, _)
FirstUsableFrom(ctl, k) ==
    IF k > Len(ButtonTexts) THEN NoButton
    ELSE IF Usable(ctl[ButtonTexts[k]]) THEN ButtonTexts[k]
    ELSE FirstUsableFrom(ctl, k + 1)

FindNextButton(ctl) == FirstUsableFrom(ctl, 1)

\* the sightings one pass of the for loop can make: every text up to the
\* button it stops at is asked, none after it
ControlStates ==
    {c \in Sightings :
        \E stop \in 1..Len(ButtonTexts) :
            /\ \E unusable \in {"absent", "disabled"} :
                  \A k \in 1..(stop - 1) : c[ButtonTexts[k]] = unusable
            /\ \A k \in (stop + 1)..Len(ButtonTexts) : c[ButtonTexts[k]] = "unobserved"
            /\ c[ButtonTexts[stop]] \in
                  IF stop = Len(ButtonTexts) THEN {"absent", "disabled", "enabled"}
                  ELSE {"enabled"}}

\* a wizard that takes "Review" for a submission
IsSubmit_review(label) == label \in {"Review", "Submit application", "Submit"}

\* if button_label in ['Submit application', 'Submit']
IsSubmit(label) == label \in {"Submit application", "Submit"}

\* a wizard that tests the step ceiling before it looks at the clicked label
AfterClick_ceiling_first(label, steps) ==
    IF steps >= max_steps THEN "FAILED"
    ELSE IF IsSubmit(label) THEN "SUCCEEDED"
    ELSE "STEP_ACTIVE"

\* a wizard whose loop has no step ceiling
AfterClick_no_ceiling(label, steps) ==
    IF IsSubmit(label) THEN "SUCCEEDED" ELSE "STEP_ACTIVE"

\* where the attempt stands after a click of `label` that made `steps` steps:
\* the Submit test (line 347) comes first, then the loop condition (line 325)
AfterClick(label, steps) ==
    IF IsSubmit(label) THEN "SUCCEEDED"
    ELSE IF steps < max_steps THEN "STEP_ACTIVE"
    ELSE "FAILED"

\* a click whose error is swallowed like an error of the form filler
Handler_click_caught(place) ==
    IF place \in {"fill_form", "click"} THEN "_fill_current_form" ELSE "apply_to_job"

\* the except clause that catches an error raised at a place of an attempt
Handler(place) ==
    IF place = "fill_form" THEN "_fill_current_form" ELSE "apply_to_job"

\* a loop that forgets the cap
LoopContinues_no_cap(idx, sent, cap, js) == idx <= Len(js)

\* a loop that gives up at the first attempt that did not succeed
LoopContinues_all_sent(idx, sent, cap, js) ==
    /\ idx <= Len(Slice(js, cap))
    /\ ~(sent >= cap)
    /\ sent = idx - 1

\* a loop that counts submissions only and walks all the candidates
LoopContinues_no_slice(idx, sent, cap, js) ==
    /\ idx <= Len(js)
    /\ ~(sent >= cap)

\* for job in jobs[:max_applications]: if applications_sent >= max_applications: break
LoopContinues(idx, sent, cap, js) ==
    /\ idx <= Len(Slice(js, cap))
    /\ ~(sent >= cap)

(***************************************************************************)
(* The field classifier and the form filler.                               *)
(***************************************************************************)
\* hint phrases joined in one hint text, at most
MaxPhrases == 2
\* most visible fields of a step with several fields
MaxFields == 2

\* the substrings _get_field_value looks for
Keywords ==
    {"first", "last", "name", "email", "phone", "address", "city", "state",
     "zip", "postal", "country", "linkedin", "portfolio", "website", "github",
     "company", "current", "title", "experience", "years", "salary", "cover",
     "letter", "why", "authorized", "eligible", "sponsor", "visa"}

\* a text is modelled by the keywords it contains: lo as substrings in lower
\* case, up as substrings with a capital letter
Text(lo, up) == [lo |-> lo, up |-> up]
EmptyText == Text({}, {})

\* str.lower()
lower(text) == Text(text.lo \cup text.up, {})

\* kw in text: the substring test of Python tells capitals from small letters
Contains(text, kw) == kw \in text.lo

\* f"{field_name} {field_id} {placeholder}"
Join(a, b, c) == Text(a.lo \cup b.lo \cup c.lo, a.up \cup b.up \cup c.up)

\* the keyword groups hint texts are built from: the keywords of each rule
\* and the single keywords of the rules that need two
HintPhrases ==
    {{k} : k \in Keywords}
        \cup {{"first", "name"}, {"last", "name"}, {"company", "current"},
              {"title", "current"}}

RECURSIVE PhraseUnions(_)
PhraseUnions(n) ==
    IF n = 0 THEN {{}}
    ELSE LET fewer == PhraseUnions(n - 1)
         IN  fewer \cup {w \cup p : w \in fewer, p \in HintPhrases}

HintWords == PhraseUnions(MaxPhrases)

\* the type attribute of a field, "None" for an element without one
TypeAttrs == {"None", "text", "checkbox", "radio", "file", "hidden", "submit",
              "button"}

\* the three hint attributes for a set of keywords: name in capitals and id
\* in small letters, or one keyword in the name and the rest in the placeholder
HintLayouts == {"name_id", "split"}
Hints(words, layout) ==
    IF layout = "name_id"
    THEN [name |-> Text({}, words), id |-> Text(words, {}), placeholder |-> EmptyText]
    ELSE LET w == IF words = {} THEN {} ELSE {CHOOSE k \in words : TRUE}
         IN  [name |-> Text({}, w), id |-> EmptyText,
              placeholder |-> Text(words \ w, {})]

Fields ==
    {[type |-> t, hints |-> Hints(words, layout)] :
        t \in TypeAttrs, words \in HintWords, layout \in HintLayouts}

NoField == [type |-> "None", hints |-> Hints({}, "name_id")]

\* UserProfile: a profile with every attribute set, one with every string
\* empty, one without a last name and with attributes that read like the
\* tokens of a checkbox
FullProfile ==
    [first_name |-> "Ada", last_name |-> "Lovelace", email |-> "ada@example.org",
     phone |-> "555", address |-> "12 St James Sq", city |-> "London",
     state |-> "LDN", zip_code |-> "SW1", country |-> "United States",
     linkedin_url |-> "linkedin.com/in/ada", portfolio_url |-> "ada.dev",
     github_url |-> "github.com/ada", resume_path |-> "resume.pdf",
     current_company |-> "Analytical Ltd", current_title |-> "Engineer",
     years_experience |-> "5", salary_expectation |-> "100k",
     work_authorized |-> TRUE, require_sponsorship |-> FALSE,
     cover_letter |-> "I am excited"]
BlankProfile ==
    [first_name |-> "", last_name |-> "", email |-> "", phone |-> "",
     address |-> "", city |-> "", state |-> "", zip_code |-> "", country |-> "",
     linkedin_url |-> "", portfolio_url |-> "", github_url |-> "",
     resume_path |-> "", current_company |-> "", current_title |-> "",
     years_experience |-> "", salary_expectation |-> "",
     work_authorized |-> FALSE, require_sponsorship |-> TRUE,
     cover_letter |-> ""]
Profiles ==
    {FullProfile, BlankProfile,
     [FullProfile EXCEPT !.last_name = "", !.require_sponsorship = TRUE,
                         !.city = "Yes", !.state = "TRUE", !.zip_code = "1",
                         !.country = "no"]}

\* UserProfile(): every attribute at its default
DefaultProfile ==
    [first_name |-> "", last_name |-> "", email |-> "", phone |-> "",
     address |-> "", city |-> "", state |-> "", zip_code |-> "",
     country |-> "United States", linkedin_url |-> "", portfolio_url |-> "",
     github_url |-> "", resume_path |-> "", current_company |-> "",
     current_title |-> "", years_experience |-> "5", salary_expectation |-> "",
     work_authorized |-> TRUE, require_sponsorship |-> FALSE,
     cover_letter |-> "I am excited about this opportunity and believe my skills would be a great fit for this role."]

ProfileKeys == DOMAIN DefaultProfile

\* the profiles setup_profile builds from the answers: every answer given,
\* every answer empty, and a first name with "y" for the sponsorship
EnteredProfiles ==
    {FullProfile,
     [DefaultProfile EXCEPT !.work_authorized = FALSE],
     [DefaultProfile EXCEPT !.first_name = "Ada", !.work_authorized = FALSE,
                            !.require_sponsorship = TRUE]}

\* self.profile before load_profile returned
NoProfile == [loaded |-> FALSE]

\* linkedin_profile.json: absent, not JSON, or a JSON object with some of the
\* attributes of a profile and perhaps a key that is none of them
NoProfileFile == [kind |-> "absent"]
GarbageFile == [kind |-> "garbage"]
JsonFile(data, unknown_key) ==
    [kind |-> "json", data |-> data, unknown_key |-> unknown_key]
ProfileFiles ==
    {NoProfileFile, GarbageFile}
        \cup {JsonFile(d, u) :
                 d \in Profiles \cup {DefaultProfile, [first_name |-> "Ada"]},
                 u \in BOOLEAN}

\* json.dump(asdict(profile), f)
asdict(profile) == JsonFile(profile, FALSE)

\* save_profile: open(..., 'w') and json.dump, or an error that is logged and
\* swallowed and the file keeps its content
save_profile(file, profile, ok) == IF ok THEN asdict(profile) ELSE file

\* UserProfile(**data): the attributes of data, the defaults for the others
UserProfile(data) ==
    [k \in ProfileKeys |-> IF k \in DOMAIN data THEN data[k] ELSE DefaultProfile[k]]

\* json.load and UserProfile(**data) can succeed on the file: it is a JSON
\* object and every key of it is an attribute
Loadable(file) == file.kind = "json" /\ ~file.unknown_key

\* a load that is not tried again after it failed
FallsBackToDefault_when_absent(file, loaded) == file.kind = "absent"

\* load_profile goes on to "Create default profile": the file does not
\* exist, or the try block raised and the except clause only logged it
FallsBackToDefault(file, loaded) == file.kind = "absent" \/ ~loaded

\* None, as _get_field_value returns it
NoValue == "None"

\* 'true' if flag else 'false'
BoolText(flag) == IF flag THEN "true" ELSE "false"

\* the fields of a form of several fields: a text field, one that no rule
\* matches, a checkbox, a file field and a hidden field
FormFields ==
    {[type |-> "text", hints |-> Hints({"email"}, "name_id")],
     [type |-> "None", hints |-> Hints({"first"}, "split")],
     [type |-> "checkbox", hints |-> Hints({"authorized"}, "name_id")],
     [type |-> "file", hints |-> Hints({"cover"}, "name_id")],
     [type |-> "hidden", hints |-> Hints({"phone"}, "name_id")]}

\* _get_field_value from the email rule on
ContactAndLaterRules(ids, field_type, profile) ==
    IF Contains(ids, "email") THEN profile.email
    ELSE IF Contains(ids, "phone") THEN profile.phone
    ELSE IF Contains(ids, "address") THEN profile.address
    ELSE IF Contains(ids, "city") THEN profile.city
    ELSE IF Contains(ids, "state") THEN profile.state
    ELSE IF Contains(ids, "zip") \/ Contains(ids, "postal") THEN profile.zip_code
    ELSE IF Contains(ids, "country") THEN profile.country
    ELSE IF Contains(ids, "linkedin") THEN profile.linkedin_url
    ELSE IF Contains(ids, "portfolio") \/ Contains(ids, "website")
         THEN profile.portfolio_url
    ELSE IF Contains(ids, "github") THEN profile.github_url
    ELSE IF Contains(ids, "company") /\ Contains(ids, "current")
         THEN profile.current_company
    ELSE IF Contains(ids, "title") /\ Contains(ids, "current")
         THEN profile.current_title
    ELSE IF Contains(ids, "experience") \/ Contains(ids, "years")
         THEN profile.years_experience
    ELSE IF Contains(ids, "salary") THEN profile.salary_expectation
    ELSE IF Contains(ids, "cover") \/ Contains(ids, "letter") \/ Contains(ids, "why")
         THEN profile.cover_letter
    ELSE IF field_type \in {"checkbox", "radio"}
            /\ (Contains(ids, "authorized") \/ Contains(ids, "eligible"))
         THEN BoolText(profile.work_authorized)
    ELSE IF field_type \in {"checkbox", "radio"}
            /\ (Contains(ids, "sponsor") \/ Contains(ids, "visa"))
         THEN BoolText(profile.require_sponsorship)
    ELSE NoValue

\* a classifier that asks for the email before the names
_get_field_value_email_first(identifiers, field_type, profile) ==
    LET ids == lower(identifiers)
    IN  IF Contains(ids, "email") THEN profile.email
        ELSE IF Contains(ids, "first") /\ Contains(ids, "name") THEN profile.first_name
        ELSE IF Contains(ids, "last") /\ Contains(ids, "name") THEN profile.last_name
        ELSE IF Contains(ids, "name") THEN profile.first_name \o " " \o profile.last_name
        ELSE ContactAndLaterRules(ids, field_type, profile)

\* a classifier that asks for the current company before the names
_get_field_value_company_first(identifiers, field_type, profile) ==
    LET ids == lower(identifiers)
    IN  IF Contains(ids, "company") /\ Contains(ids, "current")
        THEN profile.current_company
        ELSE IF Contains(ids, "first") /\ Contains(ids, "name") THEN profile.first_name
        ELSE IF Contains(ids, "last") /\ Contains(ids, "name") THEN profile.last_name
        ELSE IF Contains(ids, "name") THEN profile.first_name \o " " \o profile.last_name
        ELSE ContactAndLaterRules(ids, field_type, profile)

_get_field_value(identifiers, field_type, profile) ==
    LET ids == lower(identifiers)
    IN  IF Contains(ids, "first") /\ Contains(ids, "name") THEN profile.first_name
        ELSE IF Contains(ids, "last") /\ Contains(ids, "name") THEN profile.last_name
        ELSE IF /\ Contains(ids, "name")
                /\ ~Contains(ids, "first")
                /\ ~Contains(ids, "last")
             THEN profile.first_name \o " " \o profile.last_name
        ELSE ContactAndLaterRules(ids, field_type, profile)

\* a skip list without the hidden fields
SkippedTypes_no_hidden == {"submit", "button"}

\* if field_type in ['hidden', 'submit', 'button']: continue
SkippedTypes == {"hidden", "submit", "button"}

\* a test that lets None through
Truthy_not_empty(value) == value # ""

\* if value:
Truthy(value) == value # NoValue /\ value # ""

\* a check made for whatever value was resolved
IsTruthyToken_any(value) == TRUE

\* a form filler that checks a box for every value but 'false'
IsTruthyToken_not_false(value) == value # "false"

\* value.lower() in ['true', 'yes', '1']
IsTruthyToken(value) ==
    value \in {"true", "True", "TRUE", "yes", "Yes", "YES", "1"}

\* a form filler that uploads the resume to every file field
FillOperation_file_first(field_type, value, profile, resume_exists) ==
    IF field_type = "file"
    THEN IF profile.resume_path # "" /\ resume_exists THEN "upload" ELSE "none"
    ELSE IF ~Truthy(value) THEN "none"
    ELSE IF field_type \in {"checkbox", "radio"}
         THEN IF IsTruthyToken(value) THEN "check" ELSE "none"
    ELSE "fill"

\* a form filler that does not look for the file of resume_path
FillOperation_any_path(field_type, value, profile, resume_exists) ==
    IF ~Truthy(value) THEN "none"
    ELSE IF field_type = "file" THEN "upload"
    ELSE IF field_type \in {"checkbox", "radio"}
         THEN IF IsTruthyToken(value) THEN "check" ELSE "none"
    ELSE "fill"

\* the call _fill_current_form makes on a field for the value resolved:
\* set_input_files, check, fill, or none
FillOperation(field_type, value, profile, resume_exists) ==
    IF ~Truthy(value) THEN "none"
    ELSE IF field_type = "file"
         THEN IF profile.resume_path # "" /\ resume_exists THEN "upload" ELSE "none"
    ELSE IF field_type \in {"checkbox", "radio"}
         THEN IF IsTruthyToken(value) THEN "check" ELSE "none"
    ELSE "fill"

\* a loop over the fields that the error of one field ends
MoreFields_until_error(thrown, position, count) ==
    position < count /\ thrown = "none"

\* for input_field in inputs, after the pass on the field at `position` of
\* `count` ended with `thrown`: the inner except clause continues the loop
MoreFields(thrown, position, count) == position < count

\* the buttons of a page: what the first button matched by each text is
Pages == [Labels -> {"absent", "disabled", "enabled"}]
NoPage == [l \in Labels |-> "absent"]

VARIABLES
    profile,            \* self.profile
    call,               \* the operation of the form filler that acted last
    field,              \* the field of the current pass of the for loop
    classified,         \* _get_field_value was called for the field
    value,              \* what _get_field_value returned
    effect,             \* the call made on the field: fill, check, upload, none
    field_raised,       \* place of the error raised in the pass
    resume,             \* the file of resume_path exists
    page,               \* the buttons of the page of a step
    next_button,        \* text of the button the search stops at
    inputs_count,       \* len(inputs), the visible fields of the step
    position,           \* place in inputs of the field of the current pass
    earlier_raised,     \* an earlier pass of this call raised an error
    form_done,          \* the for loop of _fill_current_form has ended
    profile_file        \* content of linkedin_profile.json

formVars == <<profile, call, field, classified, value, effect, field_raised,
              resume, page, next_button, inputs_count, position, earlier_raised,
              form_done, profile_file>>

\* the form filler before any of its operations is applied
FormIdle ==
    /\ call = "none"
    /\ field = NoField
    /\ classified = FALSE
    /\ value = NoValue
    /\ effect = "none"
    /\ field_raised = "none"
    /\ resume = FALSE
    /\ page = NoPage
    /\ next_button = NoButton
    /\ inputs_count = 0
    /\ position = 0
    /\ earlier_raised = FALSE
    /\ form_done = FALSE

(***************************************************************************)
(* The store of server.py and the requests to its API.                     *)
(***************************************************************************)
\* current_user["uid"] of the verified tokens
Identities == {"uid_a", "uid_b"}

\* the routes that depend on get_user_from_db and touch users and profiles
ProfileRoutes == {"login_user", "get_my_profile", "update_my_profile"}

\* a request that has not reached get_user_from_db yet
NoUser == 0

\* User(firebase_uid=...).model_dump(): id stands for the uuid4 drawn by the
\* request that inserted the document
UserDoc(id, uid) == [id |-> id, firebase_uid |-> uid]

\* UserProfile(user_id=...).model_dump()
ProfileDoc(id, user_id, full_name) ==
    [id |-> id, user_id |-> user_id, full_name |-> full_name]

VARIABLES
    users,              \* db.users
    profiles,           \* db.profiles
    requests,           \* the requests in flight: route, identity, position, user
    templates,          \* db.templates
    mappings,           \* db.mappings
    applications,       \* db.applications
    served,             \* requests served so far, one after the other
    response            \* the response to the last of them

apiVars == <<users, profiles, requests, templates, mappings, applications,
             served, response>>

NoResponse ==
    [caller |-> "none", route |-> "none", id |-> 0, code |-> 0, docs |-> {}]

\* the store and the API before any request
ApiIdle ==
    /\ users = {}
    /\ profiles = {}
    /\ requests = <<>>
    /\ templates = {}
    /\ mappings = {}
    /\ applications = {}
    /\ served = 0
    /\ response = NoResponse

VARIABLES
    run,                \* processes started so far
    pc,                 \* position of the process of the current run
    file,               \* records of applied_jobs.json
    applied_jobs,       \* self.applied_jobs
    max_applications,   \* self.max_applications
    job_cards,          \* the cards of the scan, while discovery's result is tested
    jobs,               \* the candidates discovery returned
    idx,                \* position of the loop of run_automation in jobs
    applications_sent,
    wstate,             \* state of the current attempt
    steps_completed,
    button_label,       \* text of the button the current step clicked
    controls,           \* what the current step saw of the controls
    fills,              \* form-fill passes of the current attempt
    clicks,             \* control activations of the current attempt
    raised,             \* place of the error raised in the current step
    always_next,        \* every step of the attempt so far clicked "Next"
    ledger0,            \* applied_jobs when the current attempt began
    result,             \* value apply_to_job returned
    applied_ever,       \* identifiers apply_to_job has succeeded for
    interrupted,        \* the run was ended by an interrupt
    browser,            \* self.browser: "none", "open" or "closed"
    context,            \* self.context: "none", "open" or "closed"
    logged_in,          \* value login_to_linkedin returned
    exit_path           \* how run_automation of the last run ended

vars == <<run, pc, file, applied_jobs, max_applications, job_cards, jobs, idx,
          applications_sent, wstate, steps_completed, button_label, controls,
          fills, clicks, raised, always_next, ledger0, result, applied_ever,
          interrupted, browser, context, logged_in, exit_path>>

processVars == <<applied_jobs, max_applications, job_cards, jobs, idx,
                 applications_sent>>

runVars == <<browser, context, logged_in, exit_path>>

attemptVars == <<wstate, steps_completed, button_label, controls, fills, clicks,
                 raised, always_next, ledger0, result>>

Running == pc \in {"start", "search", "searched", "attempt", "returned"}

InitialLedgers == {<<>>, <<[job_id |-> "4123", status |-> "applied"]>>}

\* no process has run yet
RunInit ==
    /\ run = 0
    /\ pc = "exited"
    /\ file \in InitialLedgers
    /\ applied_jobs = <<>>
    /\ max_applications = 0
    /\ job_cards = <<>>
    /\ jobs = <<>>
    /\ idx = 0
    /\ applications_sent = 0
    /\ wstate = "NONE"
    /\ steps_completed = 0
    /\ button_label = NoButton
    /\ controls = Unobserved
    /\ fills = 0
    /\ clicks = 0
    /\ raised = "none"
    /\ always_next = TRUE
    /\ ledger0 = <<>>
    /\ result = FALSE
    /\ applied_ever = {}
    /\ interrupted = FALSE
    /\ browser = "none"
    /\ context = "none"
    /\ logged_in = FALSE
    /\ exit_path = "none"

Init ==
    /\ RunInit
    /\ profile = FullProfile
    /\ profile_file = asdict(profile)
    /\ FormIdle
    /\ ApiIdle

\* the locals of apply_to_job when no pass of its loop has begun
FreshLocals ==
    /\ steps_completed' = 0
    /\ button_label' = NoButton
    /\ controls' = Unobserved
    /\ fills' = 0
    /\ clicks' = 0
    /\ raised' = "none"
    /\ always_next' = TRUE
    /\ result' = FALSE

\* cleanup: context.close(), then browser.close(), each when the handle is
\* set; when the first close raises, the second is never reached
cleanup(brw, ctx) ==
    \E closing \in {"closed", "context_close_raised"} :
        /\ closing = "context_close_raised" => ctx = "open"
        /\ context' = IF ctx = "open" /\ closing = "closed" THEN "closed" ELSE ctx
        /\ browser' = IF brw = "open" /\ closing = "closed" THEN "closed" ELSE brw

\* run_automation ends by the given path with the given handles set, its
\* finally clause runs cleanup and the process ends: its memory is gone, the
\* file stays; what is kept of the attempt is where it was left
Exit(path, brw, ctx) ==
    /\ pc' = "exited"
    /\ exit_path' = path
    /\ logged_in' = FALSE
    /\ cleanup(brw, ctx)
    /\ applied_jobs' = <<>>
    /\ max_applications' = 0
    /\ job_cards' = <<>>
    /\ jobs' = <<>>
    /\ idx' = 0
    /\ applications_sent' = 0
    /\ steps_completed' = 0
    /\ controls' = Unobserved
    /\ fills' = 0
    /\ clicks' = 0
    /\ raised' = "none"
    /\ always_next' = TRUE
    /\ ledger0' = <<>>
    /\ result' = FALSE
    /\ UNCHANGED <<run, file, applied_ever, wstate, button_label>>

\* main: LinkedInAutomator(...) loads the ledger, run_automation sets the cap
main ==
    /\ pc = "exited"
    /\ run < MaxRuns
    /\ run' = run + 1
    /\ \E ok \in BOOLEAN : applied_jobs' = load_applied_jobs(file, ok)
    /\ \E cap \in Caps : max_applications' = cap
    /\ pc' = "start"
    /\ interrupted' = FALSE
    /\ wstate' = "NONE"
    /\ ledger0' = <<>>
    /\ FreshLocals
    /\ browser' = "none"
    /\ context' = "none"
    /\ logged_in' = FALSE
    /\ exit_path' = "none"
    /\ UNCHANGED <<file, applied_ever, job_cards, jobs, idx, applications_sent>>
    /\ UNCHANGED formVars
    /\ UNCHANGED apiVars

\* the handles initialize_browser has set when it returns or raises: launch
\* sets self.browser, new_context sets self.context
Acquired == {[browser |-> "none", context |-> "none"],
             [browser |-> "open", context |-> "none"],
             [browser |-> "open", context |-> "open"]}

\* a run that goes on to discovery whatever login_to_linkedin returned
LoginProceeds_always(outcome) == outcome \in {"login_failed", "logged_in"}

\* if not await self.login_to_linkedin(email, password): return
LoginProceeds(outcome) == outcome = "logged_in"

\* run_automation: initialize_browser and login_to_linkedin
run_automation_login ==
    /\ pc = "start"
    /\ \E outcome \in {"init_error", "login_failed", "logged_in"}, got \in Acquired :
          /\ outcome # "init_error" => (got.browser = "open" /\ got.context = "open")
          /\ IF LoginProceeds(outcome)
             THEN /\ pc' = "search"
                  /\ browser' = got.browser
                  /\ context' = got.context
                  /\ logged_in' = (outcome = "logged_in")
                  /\ UNCHANGED <<run, file, applied_ever, exit_path>>
                  /\ UNCHANGED processVars
                  /\ UNCHANGED attemptVars
             ELSE Exit(outcome, got.browser, got.context)
    /\ UNCHANGED interrupted
    /\ UNCHANGED formVars
    /\ UNCHANGED apiVars

\* search_easy_apply_jobs: an error before the cards are read returns []
search_easy_apply_jobs ==
    /\ pc = "search"
    /\ \E scan \in RawScans, page_error \in BOOLEAN :
          /\ job_cards' = IF page_error THEN <<>> ELSE scan
          /\ jobs' = IF page_error THEN <<>> ELSE SearchResult(scan, applied_jobs)
    /\ applied_jobs' = LedgerAfterDiscovery(applied_jobs, jobs')
    /\ pc' = "searched"
    /\ UNCHANGED <<run, file, max_applications, idx,
                   applications_sent, applied_ever, interrupted>>
    /\ UNCHANGED runVars
    /\ UNCHANGED attemptVars
    /\ UNCHANGED formVars
    /\ UNCHANGED apiVars

\* the loop of run_automation comes to candidate i with n applications sent:
\* apply_to_job is called, or the loop and the run end
LoopAt(i, n) ==
    IF LoopContinues(i, n, max_applications, jobs)
    THEN /\ idx' = i
         /\ applications_sent' = n
         /\ pc' = "attempt"
         /\ job_cards' = <<>>
         /\ wstate' = "CALLED"
         /\ ledger0' = applied_jobs
         /\ FreshLocals
         /\ UNCHANGED <<run, file, applied_jobs, max_applications, jobs, applied_ever>>
         /\ UNCHANGED runVars
    ELSE Exit("completed", browser, context)

\* run_automation: if not jobs: return; else the first pass of the loop
run_automation_loop ==
    /\ pc = "searched"
    /\ IF jobs = <<>> THEN Exit("no_jobs", browser, context) ELSE LoopAt(1, 0)
    /\ UNCHANGED interrupted
    /\ UNCHANGED formVars
    /\ UNCHANGED apiVars

\* apply_to_job up to the first step: click the card, find and click Easy Apply
apply_to_job_open ==
    /\ pc = "attempt"
    /\ wstate = "CALLED"
    /\ \E outcome \in {"card", "no_button", "start", "opened"} :
          IF outcome = "opened"
          THEN /\ wstate' = "STEP_ACTIVE"
               /\ UNCHANGED <<pc, raised>>
          ELSE /\ wstate' = IF outcome = "no_button" THEN "NOT_STARTED" ELSE "FAILED"
               /\ raised' = IF outcome = "no_button" THEN raised ELSE outcome
               /\ pc' = "returned"
    /\ UNCHANGED <<run, file, applied_ever, interrupted>>
    /\ UNCHANGED runVars
    /\ UNCHANGED processVars
    /\ UNCHANGED <<steps_completed, button_label, controls, fills, clicks,
                   always_next, ledger0, result>>
    /\ UNCHANGED formVars
    /\ UNCHANGED apiVars

\* one pass of the while loop up to the click: _fill_current_form, the search
\* for a control and its click; an error is raised at one place at most
apply_to_job_step ==
    /\ pc = "attempt"
    /\ wstate = "STEP_ACTIVE"
    /\ steps_completed < max_steps
    /\ fills' = fills + 1
    /\ \E thrown \in {"none", "fill_form", "locate", "click"},
          ctl \in ControlStates :
          LET fatal == thrown # "none" /\ Handler(thrown) = "apply_to_job"
              \* nothing is seen of the controls when the error comes first
              seen == IF thrown = "locate" \/ (fatal /\ thrown # "click")
                      THEN Unobserved ELSE ctl
              label == FindNextButton(seen)
              clicked == label # NoButton /\ thrown # "click"
          IN  /\ thrown = "click" => FindNextButton(ctl) # NoButton
              /\ controls' = seen
              /\ raised' = thrown
              /\ always_next' = (always_next /\ clicked /\ label = "Next")
              /\ IF fatal
                 THEN /\ wstate' = "FAILED"
                      /\ pc' = "returned"
                      /\ UNCHANGED <<button_label, clicks>>
                 ELSE IF clicked
                 THEN /\ wstate' = "ADVANCING"
                      /\ button_label' = label
                      /\ clicks' = clicks + 1
                      /\ UNCHANGED pc
                 ELSE /\ wstate' = "STALLED"
                      /\ pc' = "returned"
                      /\ UNCHANGED <<button_label, clicks>>
    /\ UNCHANGED <<run, file, applied_ever, interrupted>>
    /\ UNCHANGED runVars
    /\ UNCHANGED processVars
    /\ UNCHANGED <<steps_completed, ledger0, result>>
    /\ UNCHANGED formVars
    /\ UNCHANGED apiVars

\* after the click and its pause: count the step, then record the application
\* after a Submit, or begin the next pass of the loop, or leave the loop
apply_to_job_advance ==
    /\ pc = "attempt"
    /\ wstate = "ADVANCING"
    /\ steps_completed' = steps_completed + 1
    /\ wstate' = AfterClick(button_label, steps_completed')
    /\ IF wstate' = "SUCCEEDED"
       THEN /\ applied_jobs' = Append(applied_jobs, JobApplication(jobs[idx]))
            /\ \E ok \in BOOLEAN : file' = save_applied_jobs(file, applied_jobs', ok)
            /\ applied_ever' = applied_ever \cup {jobs[idx].job_id}
            /\ result' = TRUE
            /\ pc' = "returned"
            /\ UNCHANGED <<button_label, controls, raised>>
       ELSE /\ IF wstate' = "STEP_ACTIVE"
               THEN /\ button_label' = NoButton
                    /\ controls' = Unobserved
                    /\ raised' = "none"
                    /\ UNCHANGED pc
               ELSE /\ pc' = "returned"
                    /\ UNCHANGED <<button_label, controls, raised>>
            /\ UNCHANGED <<applied_jobs, file, applied_ever, result>>
    /\ UNCHANGED <<run, max_applications, job_cards, jobs, idx, applications_sent,
                   interrupted>>
    /\ UNCHANGED runVars
    /\ UNCHANGED <<fills, clicks, always_next, ledger0>>
    /\ UNCHANGED formVars
    /\ UNCHANGED apiVars

\* run_automation after apply_to_job returned: count a success, pause, and
\* the next pass of the loop
run_automation_next ==
    /\ pc = "returned"
    /\ LoopAt(idx + 1, IF result THEN applications_sent + 1 ELSE applications_sent)
    /\ UNCHANGED interrupted
    /\ UNCHANGED formVars
    /\ UNCHANGED apiVars

\* SIGINT while the run is suspended in an await: the task is cancelled, no
\* except Exception clause catches the cancellation, the run ends
interrupt ==
    /\ Running
    /\ \E got \in Acquired :
          \* initialize_browser is under way at "start", over afterwards
          /\ pc # "start" => (got.browser = browser /\ got.context = context)
          /\ Exit("interrupt", got.browser, got.context)
    /\ interrupted' = TRUE
    /\ UNCHANGED formVars
    /\ UNCHANGED apiVars

Next ==
    \/ main
    \/ run_automation_login
    \/ search_easy_apply_jobs
    \/ run_automation_loop
    \/ apply_to_job_open
    \/ apply_to_job_step
    \/ apply_to_job_advance
    \/ run_automation_next
    \/ interrupt

Spec == Init /\ [][Next]_vars

TypeOK ==
    /\ run \in 0..MaxRuns
    /\ wstate \in {"NONE", "CALLED", "STEP_ACTIVE", "ADVANCING", "SUCCEEDED",
                   "STALLED", "FAILED", "NOT_STARTED"}
    /\ steps_completed \in 0..max_steps
    /\ fills \in 0..max_steps
    /\ clicks \in 0..max_steps

(***************************************************************************)
(* The form filler and the control search on the fields and buttons of one *)
(* page.                                                                   *)
(***************************************************************************)
FormInit ==
    /\ RunInit
    /\ file = <<>>
    /\ profile \in Profiles
    /\ profile_file = asdict(profile)
    /\ FormIdle
    /\ ApiIdle

\* field_type = await input_field.get_attribute('type') or 'text'
FieldType(type_attr) == IF type_attr = "None" THEN "text" ELSE type_attr

\* identifiers, as _fill_current_form builds them from the three attributes
Identifiers(f) ==
    Join(lower(f.hints.name), lower(f.hints.id), lower(f.hints.placeholder))

\* _fill_current_form: the locator of the visible fields raises, the outer
\* except clause logs the error, no field is read
_fill_current_form_raises ==
    /\ call = "none"
    /\ call' = "_fill_current_form"
    /\ field' = NoField
    /\ classified' = FALSE
    /\ value' = NoValue
    /\ effect' = "none"
    /\ field_raised' = "enumerate"
    /\ inputs_count' = 0
    /\ position' = 0
    /\ earlier_raised' = FALSE
    /\ form_done' = TRUE
    /\ UNCHANGED <<profile, resume, page, next_button, profile_file>>
    /\ UNCHANGED vars
    /\ UNCHANGED apiVars

\* one pass of the for loop of _fill_current_form on the field f: an error
\* raised while the attributes are read or by the call on the field is
\* caught by the inner except clause
FieldPass(f, thrown, exists) ==
    LET field_type == FieldType(f.type)
        skipped == field_type \in SkippedTypes
        resolved == _get_field_value(Identifiers(f), field_type, profile)
        operation == FillOperation(field_type, resolved, profile, exists)
        reached == thrown # "read" /\ ~skipped
    IN  /\ thrown = "act" => (reached /\ operation # "none")
        \* whether the resume file is there matters to a file field only
        /\ exists => field_type = "file"
        /\ field' = f
        /\ field_raised' = thrown
        /\ resume' = exists
        /\ classified' = reached
        /\ value' = IF reached THEN resolved ELSE NoValue
        /\ effect' = IF reached /\ thrown = "none" THEN operation ELSE "none"

\* _fill_current_form on a step with one visible field
_fill_current_form_field ==
    /\ call = "none"
    /\ \E f \in Fields, thrown \in {"none", "read", "act"}, exists \in BOOLEAN :
          /\ FieldPass(f, thrown, exists)
          /\ form_done' = ~MoreFields(thrown, 1, 1)
    /\ call' = "_fill_current_form"
    /\ inputs_count' = 1
    /\ position' = 1
    /\ earlier_raised' = FALSE
    /\ UNCHANGED <<profile, page, next_button, profile_file>>
    /\ UNCHANGED vars
    /\ UNCHANGED apiVars

\* _fill_current_form on a step with several visible fields: the first pass
\* of the for loop, or the next one
_fill_current_form_pass ==
    /\ \/ /\ call = "none"
          /\ inputs_count' \in 2..MaxFields
          /\ position' = 1
          /\ earlier_raised' = FALSE
       \/ /\ call = "_fill_current_form"
          /\ ~form_done
          /\ position' = position + 1
          /\ earlier_raised' = (earlier_raised \/ field_raised # "none")
          /\ UNCHANGED inputs_count
    /\ \E f \in FormFields, thrown \in {"none", "read", "act"}, exists \in BOOLEAN :
          /\ FieldPass(f, thrown, exists)
          /\ form_done' = ~MoreFields(thrown, position', inputs_count')
    /\ call' = "_fill_current_form"
    /\ UNCHANGED <<profile, page, next_button, profile_file>>
    /\ UNCHANGED vars
    /\ UNCHANGED apiVars

\* _get_field_value called on its own with an identifier text and a type
get_field_value_call ==
    /\ call = "none"
    /\ \E t \in TypeAttrs \ {"None"}, words \in HintWords :
          /\ field' = [type |-> t,
                       hints |-> [name |-> Text({}, words), id |-> EmptyText,
                                  placeholder |-> EmptyText]]
          /\ value' = _get_field_value(Text({}, words), t, profile)
    /\ call' = "_get_field_value"
    /\ classified' = TRUE
    /\ effect' = "none"
    /\ field_raised' = "none"
    /\ resume' = FALSE
    /\ UNCHANGED <<profile, page, next_button, profile_file>>
    /\ UNCHANGED <<inputs_count, position, earlier_raised, form_done>>
    /\ UNCHANGED vars
    /\ UNCHANGED apiVars

\* apply_to_job: the for loop over the button texts on a page
find_next_button ==
    /\ call = "none"
    /\ \E p \in Pages :
          /\ page' = p
          /\ next_button' = FindNextButton(p)
    /\ call' = "find_next_button"
    /\ field' = NoField
    /\ classified' = FALSE
    /\ value' = NoValue
    /\ effect' = "none"
    /\ field_raised' = "none"
    /\ resume' = FALSE
    /\ UNCHANGED <<profile, profile_file>>
    /\ UNCHANGED <<inputs_count, position, earlier_raised, form_done>>
    /\ UNCHANGED vars
    /\ UNCHANGED apiVars

FormNext ==
    \/ _fill_current_form_raises
    \/ _fill_current_form_field
    \/ _fill_current_form_pass
    \/ get_field_value_call
    \/ find_next_button

FormSpec == FormInit /\ [][FormNext]_formVars

(***************************************************************************)
(* The profile file over the processes that load it and the setup that     *)
(* saves it.                                                               *)
(***************************************************************************)
ProfileInit ==
    /\ RunInit
    /\ file = <<>>
    /\ profile = NoProfile
    /\ profile_file \in ProfileFiles
    /\ FormIdle
    /\ ApiIdle

\* what the operations on the profile leave alone
profileFrame ==
    <<pc, file, processVars, runVars, attemptVars, applied_ever, interrupted,
      field, classified, value, effect, field_raised, resume, page, next_button,
      inputs_count, position, earlier_raised, form_done, apiVars>>

\* LinkedInAutomator() in a new process: self.profile = self.load_profile()
load_profile ==
    /\ run < MaxRuns
    /\ run' = run + 1
    /\ \E loaded \in BOOLEAN, ok \in BOOLEAN :
          /\ loaded => Loadable(profile_file)
          /\ IF FallsBackToDefault(profile_file, loaded)
             THEN /\ profile' = DefaultProfile
                  /\ profile_file' = save_profile(profile_file, profile', ok)
             ELSE /\ profile' = UserProfile(profile_file.data)
                  /\ UNCHANGED profile_file
    /\ call' = "load_profile"
    /\ UNCHANGED profileFrame

\* setup_profile after it constructed the automator: it saves the profile
\* the user entered
setup_profile ==
    /\ call = "load_profile"
    /\ \E entered \in EnteredProfiles, ok \in BOOLEAN :
          profile_file' = save_profile(profile_file, entered, ok)
    /\ call' = "setup_profile"
    /\ UNCHANGED <<run, profile>>
    /\ UNCHANGED profileFrame

ProfileNext ==
    \/ load_profile
    \/ setup_profile

ProfileSpec == ProfileInit /\ [][ProfileNext]_<<vars, formVars>>

(***************************************************************************)
(* Concurrent requests to the routes that get or create the user and the   *)
(* profile: a step of a request is what it does between two awaits.        *)
(***************************************************************************)
Request(route, uid, place, user) ==
    [route |-> route, uid |-> uid, pc |-> place, user |-> user]

ApiInit ==
    /\ RunInit
    /\ file = <<>>
    /\ profile = FullProfile
    /\ profile_file = asdict(profile)
    /\ FormIdle
    /\ users = {}
    /\ profiles = {}
    /\ requests \in [1..MaxRequests ->
                       {Request(route, uid, "arrived", NoUser) :
                          route \in ProfileRoutes, uid \in Identities}]
    /\ templates = {}
    /\ mappings = {}
    /\ applications = {}
    /\ served = 0
    /\ response = NoResponse

\* what the routes of users and profiles leave alone
ApiFrame ==
    /\ UNCHANGED <<templates, mappings, applications, served, response>>
    /\ UNCHANGED vars
    /\ UNCHANGED formVars

\* where a request goes on when get_user_from_db has returned its user
AfterUser(route) == IF route = "login_user" THEN "done" ELSE "find_profile"

\* get_user_from_db: await db.users.find_one({"firebase_uid": uid})
get_user_from_db_find(r) ==
    /\ requests[r].pc = "arrived"
    /\ LET found == {u \in users : u.firebase_uid = requests[r].uid}
       IN  IF found = {}
           THEN requests' = [requests EXCEPT ![r].pc = "insert_user"]
           ELSE \E u \in found :
                   requests' = [requests EXCEPT ![r].pc = AfterUser(requests[r].route),
                                                ![r].user = u.id]
    /\ UNCHANGED <<users, profiles>>
    /\ ApiFrame

\* get_user_from_db: no document was found, await db.users.insert_one(...)
get_user_from_db_insert(r) ==
    /\ requests[r].pc = "insert_user"
    /\ users' = users \cup {UserDoc(r, requests[r].uid)}
    /\ requests' = [requests EXCEPT ![r].pc = AfterUser(requests[r].route),
                                    ![r].user = r]
    /\ UNCHANGED profiles
    /\ ApiFrame

\* get_my_profile, update_my_profile: await db.profiles.find_one({"user_id": user.id})
profile_find(r) ==
    /\ requests[r].pc = "find_profile"
    /\ LET found == {p \in profiles : p.user_id = requests[r].user}
       IN  requests' = [requests EXCEPT ![r].pc =
                          IF found = {} THEN "insert_profile"
                          ELSE IF requests[r].route = "get_my_profile" THEN "done"
                          ELSE "update_profile"]
    /\ UNCHANGED <<users, profiles>>
    /\ ApiFrame

\* get_my_profile, update_my_profile: no profile was found,
\* await db.profiles.insert_one(profile.model_dump())
profile_insert(r) ==
    /\ requests[r].pc = "insert_profile"
    /\ profiles' = profiles \cup
          {ProfileDoc(r, requests[r].user,
                      IF requests[r].route = "update_my_profile" THEN "updated" ELSE "")}
    /\ requests' = [requests EXCEPT ![r].pc = "done"]
    /\ UNCHANGED users
    /\ ApiFrame

\* update_my_profile: await db.profiles.update_one({"user_id": user.id}, {"$set": ...}),
\* which changes one of the documents that match
update_my_profile_update(r) ==
    /\ requests[r].pc = "update_profile"
    /\ LET found == {p \in profiles : p.user_id = requests[r].user}
       IN  \E p \in found :
               profiles' = (profiles \ {p}) \cup {[p EXCEPT !.full_name = "updated"]}
    /\ requests' = [requests EXCEPT ![r].pc = "refind_profile"]
    /\ UNCHANGED users
    /\ ApiFrame

\* update_my_profile: the find_one whose document is returned
update_my_profile_return(r) ==
    /\ requests[r].pc = "refind_profile"
    /\ requests' = [requests EXCEPT ![r].pc = "done"]
    /\ UNCHANGED <<users, profiles>>
    /\ ApiFrame

ApiNext ==
    \/ \E r \in 1..MaxRequests : get_user_from_db_find(r)
    \/ \E r \in 1..MaxRequests : get_user_from_db_insert(r)
    \/ \E r \in 1..MaxRequests : profile_find(r)
    \/ \E r \in 1..MaxRequests : profile_insert(r)
    \/ \E r \in 1..MaxRequests : update_my_profile_update(r)
    \/ \E r \in 1..MaxRequests : update_my_profile_return(r)

ApiSpec == ApiInit /\ [][ApiNext]_apiVars

(***************************************************************************)
(* Requests on templates, mappings and applications, served one after the  *)
(* other for two users whose user documents exist.                         *)
(***************************************************************************)
\* user.id of the two callers
Callers == {"user_a", "user_b"}

\* the ids a path can name: those of the documents inserted so far and of
\* documents that may still be, id standing for the uuid4 of the request
\* that inserted the document
DocIds == 1..MaxRequests

\* no template_id in the body of POST /applications
NoTemplate == 0

\* the status strings of the requests: two that the pattern of
\* JobApplicationCreate accepts and one that it does not
RequestStatuses == {"applied", "interview", "on hold"}

\* JobApplicationCreate.status: pattern="^(applied|reviewed|interview|rejected|offer)$"
StatusPattern == {"applied", "reviewed", "interview", "rejected", "offer"}

TemplateDoc(id, user_id, name, usage_count) ==
    [id |-> id, user_id |-> user_id, name |-> name, usage_count |-> usage_count]

MappingDoc(id, user_id, site_domain, site_name) ==
    [id |-> id, user_id |-> user_id, site_domain |-> site_domain,
     site_name |-> site_name]

ApplicationDoc(id, user_id, status, template_id) ==
    [id |-> id, user_id |-> user_id, status |-> status, template_id |-> template_id]

\* find({"id": id, "user_id": user.id}) on a collection
Owned(docs, id, caller) == {doc \in docs : doc.id = id /\ doc.user_id = caller}

\* the status code of `raise HTTPException(status_code=status.HTTP_404_NOT_FOUND)`:
\* in update_application_status the parameter status, a str, hides the
\* module fastapi.status, the expression raises AttributeError and the
\* request is answered 500
NotFoundCode(route) == IF route = "update_application_status" THEN 500 ELSE 404

Response(caller, route, id, code, docs) ==
    [caller |-> caller, route |-> route, id |-> id, code |-> code, docs |-> docs]

StoreInit ==
    /\ RunInit
    /\ file = <<>>
    /\ profile = FullProfile
    /\ profile_file = asdict(profile)
    /\ FormIdle
    /\ users = {UserDoc("user_a", "uid_a"), UserDoc("user_b", "uid_b")}
    /\ profiles = {}
    /\ requests = <<>>
    /\ templates = {}
    /\ mappings = {}
    /\ applications = {}
    /\ served = 0
    /\ response = NoResponse

\* a request is served; what no route of the three collections touches
Serve ==
    /\ served < MaxRequests
    /\ served' = served + 1
    /\ UNCHANGED <<users, profiles, requests>>
    /\ UNCHANGED vars
    /\ UNCHANGED formVars

create_template ==
    /\ Serve
    /\ \E c \in Callers :
          LET doc == TemplateDoc(served', c, "template", 0)
          IN  /\ templates' = templates \cup {doc}
              /\ response' = Response(c, "create_template", doc.id, 200, {doc})
    /\ UNCHANGED <<mappings, applications>>

get_templates ==
    /\ Serve
    /\ \E c \in Callers :
          response' = Response(c, "get_templates", 0, 200,
                               {t \in templates : t.user_id = c})
    /\ UNCHANGED <<templates, mappings, applications>>

get_template ==
    /\ Serve
    /\ \E c \in Callers, id \in DocIds :
          LET found == Owned(templates, id, c)
          IN  response' = IF found = {}
                          THEN Response(c, "get_template", id, NotFoundCode("get_template"), {})
                          ELSE Response(c, "get_template", id, 200, found)
    /\ UNCHANGED <<templates, mappings, applications>>

update_template ==
    /\ Serve
    /\ \E c \in Callers, id \in DocIds :
          LET found == Owned(templates, id, c)
              updated == {[t EXCEPT !.name = "renamed"] : t \in found}
          IN  IF found = {}
              THEN /\ response' = Response(c, "update_template", id,
                                           NotFoundCode("update_template"), {})
                   /\ UNCHANGED templates
              ELSE /\ templates' = (templates \ found) \cup updated
                   /\ response' = Response(c, "update_template", id, 200, updated)
    /\ UNCHANGED <<mappings, applications>>

delete_template ==
    /\ Serve
    /\ \E c \in Callers, id \in DocIds :
          LET found == Owned(templates, id, c)
          IN  /\ templates' = templates \ found
              /\ response' = Response(c, "delete_template", id,
                                      IF found = {} THEN NotFoundCode("delete_template")
                                      ELSE 200, {})
    /\ UNCHANGED <<mappings, applications>>

create_mapping ==
    /\ Serve
    /\ \E c \in Callers, site \in {"linkedin.com", "indeed.com"} :
          LET doc == MappingDoc(served', c, site, "site")
          IN  /\ mappings' = mappings \cup {doc}
              /\ response' = Response(c, "create_mapping", doc.id, 200, {doc})
    /\ UNCHANGED <<templates, applications>>

\* site is the optional filter, "" when the query has none
get_mappings ==
    /\ Serve
    /\ \E c \in Callers, site \in {"", "linkedin.com"} :
          response' = Response(c, "get_mappings", 0, 200,
                               {mp \in mappings :
                                  /\ mp.user_id = c
                                  /\ site # "" => mp.site_domain = site})
    /\ UNCHANGED <<templates, mappings, applications>>

get_mapping ==
    /\ Serve
    /\ \E c \in Callers, id \in DocIds :
          LET found == Owned(mappings, id, c)
          IN  response' = IF found = {}
                          THEN Response(c, "get_mapping", id, NotFoundCode("get_mapping"), {})
                          ELSE Response(c, "get_mapping", id, 200, found)
    /\ UNCHANGED <<templates, mappings, applications>>

update_mapping ==
    /\ Serve
    /\ \E c \in Callers, id \in DocIds :
          LET found == Owned(mappings, id, c)
              updated == {[mp EXCEPT !.site_name = "renamed"] : mp \in found}
          IN  IF found = {}
              THEN /\ response' = Response(c, "update_mapping", id,
                                           NotFoundCode("update_mapping"), {})
                   /\ UNCHANGED mappings
              ELSE /\ mappings' = (mappings \ found) \cup updated
                   /\ response' = Response(c, "update_mapping", id, 200, updated)
    /\ UNCHANGED <<templates, applications>>

delete_mapping ==
    /\ Serve
    /\ \E c \in Callers, id \in DocIds :
          LET found == Owned(mappings, id, c)
          IN  /\ mappings' = mappings \ found
              /\ response' = Response(c, "delete_mapping", id,
                                      IF found = {} THEN NotFoundCode("delete_mapping")
                                      ELSE 200, {})
    /\ UNCHANGED <<templates, applications>>

\* POST /applications: a body whose status does not match the pattern is
\* refused with 422 before the handler runs; the handler adds 1 to the
\* usage_count of the caller's template of that id, then inserts
create_application ==
    /\ Serve
    /\ \E c \in Callers, status \in RequestStatuses,
          template_id \in DocIds \cup {NoTemplate} :
          IF status \notin StatusPattern
          THEN /\ response' = Response(c, "create_application", 0, 422, {})
               /\ UNCHANGED <<templates, applications>>
          ELSE LET doc == ApplicationDoc(served', c, status, template_id)
                   used == IF template_id = NoTemplate THEN {}
                           ELSE Owned(templates, template_id, c)
               IN  /\ templates' = (templates \ used) \cup
                          {[t EXCEPT !.usage_count = @ + 1] : t \in used}
                   /\ applications' = applications \cup {doc}
                   /\ response' = Response(c, "create_application", doc.id, 200, {doc})
    /\ UNCHANGED mappings

\* status is the optional filter, "" when the query has none
get_applications ==
    /\ Serve
    /\ \E c \in Callers, status \in {"", "applied"} :
          response' = Response(c, "get_applications", 0, 200,
                               {a \in applications :
                                  /\ a.user_id = c
                                  /\ status # "" => a.status = status})
    /\ UNCHANGED <<templates, mappings, applications>>

get_application ==
    /\ Serve
    /\ \E c \in Callers, id \in DocIds :
          LET found == Owned(applications, id, c)
          IN  response' = IF found = {}
                          THEN Response(c, "get_application", id,
                                        NotFoundCode("get_application"), {})
                          ELSE Response(c, "get_application", id, 200, found)
    /\ UNCHANGED <<templates, mappings, applications>>

\* PUT /applications/{application_id}?status=...: status is a required query
\* parameter of type str, set as it is
update_application_status ==
    /\ Serve
    /\ \E c \in Callers, id \in DocIds, status \in RequestStatuses :
          LET found == Owned(applications, id, c)
              updated == {[a EXCEPT !.status = status] : a \in found}
          IN  IF found = {}
              THEN /\ response' = Response(c, "update_application_status", id,
                                           NotFoundCode("update_application_status"), {})
                   /\ UNCHANGED applications
              ELSE /\ applications' = (applications \ found) \cup updated
                   /\ response' = Response(c, "update_application_status", id, 200,
                                           updated)
    /\ UNCHANGED <<templates, mappings>>

StoreNext ==
    \/ create_template
    \/ get_templates
    \/ get_template
    \/ update_template
    \/ delete_template
    \/ create_mapping
    \/ get_mappings
    \/ get_mapping
    \/ update_mapping
    \/ delete_mapping
    \/ create_application
    \/ get_applications
    \/ get_application
    \/ update_application_status

StoreSpec == StoreInit /\ [][StoreNext]_apiVars

(***************************************************************************)
(* Claims.                                                                 *)
(***************************************************************************)
\* records the current attempt has added to the ledger
Appended == Len(applied_jobs) - Len(ledger0)

\* the ledger as it was when the attempt began is still its beginning
LedgerKept == SubSeq(applied_jobs, 1, Len(ledger0)) = ledger0

NoEnabledControl == \A l \in Labels : controls[l] # "enabled"

\* C1: an attempt on a site whose every step offers an enabled "Next" makes
\* exactly 5 form-fill passes and 5 clicks, then returns False (FAILED) with
\* no record appended to the ledger.
C1_AlwaysNextFailsAfterFiveSteps ==
    /\ (pc = "attempt" /\ always_next) => (fills <= 5 /\ applied_jobs = ledger0)
    /\ (pc = "returned" /\ always_next /\ fills > 0) =>
          /\ fills = 5
          /\ clicks = 5
          /\ wstate = "FAILED"
          /\ result = FALSE
          /\ applied_jobs = ledger0

C1_Witness ==
    pc = "returned" /\ always_next /\ fills = 5 /\ clicks = 5 /\ wstate = "FAILED"

\* C2: an attempt that ends SUCCEEDED (a "Submit application" or "Submit"
\* button was clicked) has appended exactly one record, the one of its job; an
\* attempt that ends STALLED or FAILED, or never started, has appended none;
\* no attempt appends more than one.
C2_OneRecordIffSucceeded ==
    pc \in {"attempt", "returned"} =>
        /\ LedgerKept
        /\ Appended \in {0, 1}
        /\ (Appended = 1) <=> (wstate = "SUCCEEDED")
        /\ wstate = "SUCCEEDED" =>
              /\ button_label \in {"Submit application", "Submit"}
              /\ result = TRUE
              /\ applied_jobs[Len(applied_jobs)].job_id = jobs[idx].job_id
        /\ wstate \in {"STALLED", "FAILED", "NOT_STARTED"} =>
              (applied_jobs = ledger0 /\ result = FALSE)

C2_Witness ==
    pc = "returned" /\ wstate = "SUCCEEDED" /\ Appended = 1 /\ fills > 1

\* C3: no two records of the ledger share a job_id, in any state of a run that
\* began with a ledger of distinct identifiers.
C3_LedgerIdsDistinct ==
    \A m, n \in 1..Len(applied_jobs) :
        m # n => applied_jobs[m].job_id # applied_jobs[n].job_id

\* C4: once apply_to_job has succeeded for a job identifier, no later
\* discovery returns a candidate with that identifier.
C4_AppliedNeverReturnedAgain ==
    pc = "searched" => \A k \in 1..Len(jobs) : jobs[k].job_id \notin applied_ever

\* the positions of the scan, among its first 20, whose card carries the Easy
\* Apply text and an identifier that can be read and is not in the ledger
C5_Eligible ==
    {k \in 1..Len(job_cards) :
        /\ k <= 20
        /\ ~job_cards[k].raises
        /\ job_cards[k].easy_apply
        /\ job_cards[k].url.link
        /\ job_cards[k].url.view
        /\ job_cards[k].url.id # ""
        /\ \A n \in 1..Len(applied_jobs) : applied_jobs[n].job_id # job_cards[k].url.id}

\* C5: discovery returns exactly the cards among the first 20 of the scan
\* that carry the Easy Apply text and a readable, non-empty identifier absent
\* from the ledger, in scan order.
C5_DiscoveryReturnsEligibleCardsInOrder ==
    pc = "searched" =>
        /\ Len(jobs) = Cardinality(C5_Eligible)
        /\ \A n \in 1..Len(jobs) :
              \E k \in C5_Eligible :
                  /\ Cardinality({j \in C5_Eligible : j < k}) = n - 1
                  /\ jobs[n].job_id = job_cards[k].url.id

C5_Witness ==
    /\ pc = "searched"
    /\ Len(job_cards) = 21
    /\ Len(jobs) = 1
    /\ job_cards[21].easy_apply /\ ~job_cards[21].raises
    /\ job_cards[21].url = [link |-> TRUE, view |-> TRUE, id |-> "77"]
    /\ get_applied_job_ids(applied_jobs) = {"4123"}

\* C6: when apply_to_job has returned True, the record it appended is in the
\* file, whatever the outcome of the save.
C6_SuccessMeansSaved ==
    (pc = "returned" /\ result) => file = applied_jobs

\* C7: a run that an interrupt ended has not left an attempt between its call
\* and its terminal state, and never with a Submit button clicked and no
\* record of the job.
C7_InterruptWaitsForAttemptEnd ==
    (pc = "exited" /\ interrupted) =>
        wstate \in {"NONE", "SUCCEEDED", "STALLED", "FAILED", "NOT_STARTED"}

\* C8 as claimed: an error raised at any place of an attempt, the form filler
\* included, ends the attempt FAILED with no record.
C8_AnyErrorFailsAttempt ==
    raised # "none" =>
        (wstate = "FAILED" /\ pc = "returned" /\ applied_jobs = ledger0)

\* C8: an error raised by clicking the card, starting the application,
\* locating or clicking a control ends the attempt at once, FAILED, with no
\* further click and no record; an error raised inside the form filler is
\* caught there and the same step goes on to its search for a control.
C8_ErrorOutsideFormFillerFailsAttempt ==
    /\ raised \in {"card", "start", "locate", "click"} =>
          /\ wstate = "FAILED"
          /\ pc = "returned"
          /\ result = FALSE
          /\ applied_jobs = ledger0
          /\ clicks = (IF raised \in {"card", "start"} THEN 0 ELSE fills - 1)
    /\ raised = "fill_form" =>
          /\ controls # Unobserved
          /\ wstate \in {"ADVANCING", "STALLED", "SUCCEEDED", "FAILED"}
          /\ wstate = "FAILED" => steps_completed = 5

C8_Witness ==
    raised = "click" /\ wstate = "FAILED" /\ pc = "returned" /\ fills = 3 /\ clicks = 2

\* C9: after an attempt that did not succeed, the run calls apply_to_job for
\* the next candidate whenever one is left among the first max_applications;
\* such an attempt leaves the ledger, in memory and on disk, as it was.
C9_RunGoesOnAfterFailedAttempt ==
    /\ [](pc = "returned" /\ ~result => applied_jobs = ledger0)
    /\ [][(wstate' \in {"STALLED", "FAILED", "NOT_STARTED"} /\ wstate' # wstate)
             => (file' = file /\ applied_jobs' = applied_jobs)]_vars
    /\ [][(/\ pc = "returned"
           /\ ~result
           /\ ~interrupted'
           /\ idx < Len(jobs)
           /\ idx < max_applications)
             => (/\ pc' = "attempt"
                 /\ wstate' = "CALLED"
                 /\ idx' = idx + 1
                 /\ jobs' = jobs
                 /\ file' = file
                 /\ applied_jobs' = applied_jobs)]_vars

C9_Witness ==
    /\ pc = "attempt"
    /\ wstate = "CALLED"
    /\ idx = 2
    /\ applications_sent = 0

\* C10: a step that finds none of the four buttons present and enabled ends
\* the attempt STALLED: nothing is clicked on that step, no further step is
\* filled, no record is appended; and an attempt is STALLED only so.
C10_NoControlStalls ==
    /\ (pc \in {"attempt", "returned"} /\ controls # Unobserved /\ NoEnabledControl) =>
          /\ wstate = "STALLED"
          /\ pc = "returned"
          /\ button_label = NoButton
          /\ clicks = fills - 1
          /\ result = FALSE
          /\ applied_jobs = ledger0
    /\ (pc = "returned" /\ wstate = "STALLED") =>
          (controls # Unobserved /\ NoEnabledControl)

C10_Witness ==
    /\ pc = "returned"
    /\ wstate = "STALLED"
    /\ fills = 1
    /\ clicks = 0
    /\ controls = [l \in Labels |-> "disabled"]

\* submissions of the current run that have succeeded so far
C12_Successes == applications_sent + (IF pc = "returned" /\ result THEN 1 ELSE 0)

\* C12 as claimed: in a run the number of successful submissions never
\* exceeds max_applications, and no attempt is started once it is reached.
C12_SubmissionsWithinCap ==
    /\ Running => C12_Successes <= max_applications
    /\ pc = "attempt" => applications_sent < max_applications

\* C12: in a run whose cap is not negative the number of successful
\* submissions never exceeds max_applications; whatever the cap, an attempt is
\* started only while the submissions are below it, so a run with a cap of
\* zero or less starts no attempt and submits nothing.
C12_SubmissionsWithinNonNegativeCap ==
    /\ (Running /\ max_applications >= 0) => C12_Successes <= max_applications
    /\ pc \in {"attempt", "returned"} => applications_sent < max_applications
    /\ (Running /\ max_applications <= 0) => (wstate = "NONE" /\ C12_Successes = 0)

C12_Witness ==
    /\ pc = "returned"
    /\ result
    /\ max_applications = 1
    /\ C12_Successes = 1
    /\ idx = 1
    /\ Len(jobs) = 2

\* C13: a run whose login fails ends before discovery, and a run whose
\* discovery returns no candidate ends there: neither starts an attempt nor
\* changes the ledger, in memory or on disk; discovery and attempts happen
\* only after login_to_linkedin returned True.
C13_NoAttemptAfterFailedLoginOrEmptyDiscovery ==
    /\ [](exit_path \in {"login_failed", "no_jobs"} => (pc = "exited" /\ wstate = "NONE"))
    /\ [](pc \in {"search", "searched", "attempt", "returned"} => logged_in)
    /\ [][(exit_path' = "login_failed" /\ exit_path # "login_failed")
             => (pc = "start" /\ file' = file)]_vars
    /\ [][(exit_path' = "no_jobs" /\ exit_path # "no_jobs")
             => (pc = "searched" /\ jobs = <<>> /\ file' = file)]_vars
    /\ [][(pc = "searched" /\ jobs = <<>> /\ ~interrupted')
             => (pc' = "exited" /\ exit_path' = "no_jobs")]_vars
    /\ [][wstate' = "NONE" => file' = file]_vars
    /\ [][(pc \in {"start", "search", "searched"} /\ pc' # "exited" /\ wstate' = "NONE")
             => applied_jobs' = applied_jobs]_vars

C13_Witness ==
    /\ pc = "exited"
    /\ exit_path = "no_jobs"
    /\ wstate = "NONE"
    /\ file = <<[job_id |-> "4123", status |-> "applied"]>>
    /\ run = 2

\* C14: when a run has ended, by whatever path, neither the browser nor the
\* context it acquired is still open.
C14_ResourcesReleasedOnExit ==
    pc = "exited" => (browser # "open" /\ context # "open")

\* C20: whatever a run does, the records the file held stay its beginning:
\* the persisted ledger only grows.
C20_PersistedLedgerOnlyGrows ==
    [][Len(file') >= Len(file) /\ SubSeq(file', 1, Len(file)) = file]_vars

\* the order of the labels as the claim gives it
C11_Order == <<"Next", "Review", "Submit application", "Submit">>

C11_Enabled == {k \in 1..Len(C11_Order) : page[C11_Order[k]] = "enabled"}

\* C11: the control a step activates is the first of "Next", "Review",
\* "Submit application", "Submit" that is present and enabled on the page:
\* an enabled progress control wins over an enabled terminal control, a
\* disabled or absent control is passed over, and nothing is activated when
\* none is enabled.
C11_FirstEnabledInOrderWins ==
    call = "find_next_button" =>
        /\ IF C11_Enabled = {}
           THEN next_button = NoButton
           ELSE \E k \in C11_Enabled :
                   /\ next_button = C11_Order[k]
                   /\ \A j \in C11_Enabled : k <= j
        /\ (page["Next"] = "enabled" \/ page["Review"] = "enabled")
              => next_button \in {"Next", "Review"}

C11_Witness ==
    /\ call = "find_next_button"
    /\ page = [l \in Labels |->
                 CASE l = "Next" -> "disabled"
                   [] l = "Review" -> "absent"
                   [] OTHER -> "enabled"]
    /\ next_button = "Submit application"

\* the keywords of all three hints of the field
C15_Words ==
    UNION {field.hints.name.lo, field.hints.name.up, field.hints.id.lo,
           field.hints.id.up, field.hints.placeholder.lo,
           field.hints.placeholder.up}

\* the rules in the order of the claim: the keyword sets one of which must
\* be in the hints, the attribute, and whether the rule is for checkbox and
\* radio fields only
C15_Rule(any, attr, boolean_only) ==
    [any |-> any, attr |-> attr, boolean_only |-> boolean_only]

C15_Rules ==
    <<C15_Rule({{"first", "name"}}, "first_name", FALSE),
      C15_Rule({{"last", "name"}}, "last_name", FALSE),
      C15_Rule({{"name"}}, "full_name", FALSE),
      C15_Rule({{"email"}}, "email", FALSE),
      C15_Rule({{"phone"}}, "phone", FALSE),
      C15_Rule({{"address"}}, "address", FALSE),
      C15_Rule({{"city"}}, "city", FALSE),
      C15_Rule({{"state"}}, "state", FALSE),
      C15_Rule({{"zip"}, {"postal"}}, "zip_code", FALSE),
      C15_Rule({{"country"}}, "country", FALSE),
      C15_Rule({{"linkedin"}}, "linkedin_url", FALSE),
      C15_Rule({{"portfolio"}, {"website"}}, "portfolio_url", FALSE),
      C15_Rule({{"github"}}, "github_url", FALSE),
      C15_Rule({{"company", "current"}}, "current_company", FALSE),
      C15_Rule({{"title", "current"}}, "current_title", FALSE),
      C15_Rule({{"experience"}, {"years"}}, "years_experience", FALSE),
      C15_Rule({{"salary"}}, "salary_expectation", FALSE),
      C15_Rule({{"cover"}, {"letter"}, {"why"}}, "cover_letter", FALSE),
      C15_Rule({{"authorized"}, {"eligible"}}, "work_authorized", TRUE),
      C15_Rule({{"sponsor"}, {"visa"}}, "require_sponsorship", TRUE)>>

C15_IsBooleanField == field.type \in {"checkbox", "radio"}

C15_Matching ==
    LET words == C15_Words
    IN  {i \in 1..Len(C15_Rules) :
            /\ \E alt \in C15_Rules[i].any : alt \subseteq words
            /\ C15_Rules[i].boolean_only => C15_IsBooleanField}

\* the first rule that matches the field, 0 when none does
C15_FirstRule ==
    LET matching == C15_Matching
    IN  IF matching = {} THEN 0
        ELSE CHOOSE i \in matching : \A j \in matching : i <= j

\* the value of the profile for an attribute of the rules
C15_AttributeValue(attr) ==
    CASE attr = "full_name" -> profile.first_name \o " " \o profile.last_name
      [] attr = "work_authorized" ->
            IF profile.work_authorized THEN "true" ELSE "false"
      [] attr = "require_sponsorship" ->
            IF profile.require_sponsorship THEN "true" ELSE "false"
      [] OTHER -> profile[attr]

\* C15: whatever the field type and the keywords of the hints, in capitals
\* or not, _get_field_value returns the value of the attribute of the first
\* rule that matches, in the order name rules, email, phone, address, city,
\* state, zip/postal, country, linkedin, portfolio/website, github, current
\* company, current title, experience/years, salary, cover/letter/why, then
\* for checkbox and radio only authorized/eligible and sponsor/visa, and None
\* when no rule matches.
C15_FirstMatchingRuleDecides ==
    classified =>
        LET first == C15_FirstRule
        IN  value = IF first = 0 THEN NoValue
                    ELSE C15_AttributeValue(C15_Rules[first].attr)

\* hints ("firstName", "first_name_input", "") of type text
C15_Witness ==
    /\ call = "_fill_current_form"
    /\ field = [type |-> "text", hints |-> Hints({"first", "name"}, "name_id")]
    /\ profile = FullProfile
    /\ value = "Ada"
    /\ effect = "fill"

\* the attribute of a rule is empty in the profile; for the full name, first
\* name and last name are both empty
C16_AttributeEmpty(attr) ==
    CASE attr = "full_name" -> profile.first_name = "" /\ profile.last_name = ""
      [] attr \in {"work_authorized", "require_sponsorship"} -> FALSE
      [] OTHER -> profile[attr] = ""

\* C16: on a visible field classified to an attribute that is empty in the
\* profile, the form filler makes no fill, check or upload.
C16_EmptyAttributeLeavesFieldAlone ==
    (call = "_fill_current_form" /\ classified /\ effect # "none") =>
        LET first == C15_FirstRule
        IN  first # 0 => ~C16_AttributeEmpty(C15_Rules[first].attr)

\* C17: for a field of type hidden, submit or button, whatever its hints,
\* _get_field_value is not called and no fill, check or upload is made.
C17_SkippedTypesNeverTouched ==
    (call = "_fill_current_form" /\ field.type \in {"hidden", "submit", "button"})
        => (~classified /\ value = NoValue /\ effect = "none")

C17_Witness ==
    /\ call = "_fill_current_form"
    /\ field = [type |-> "hidden", hints |-> Hints({"email"}, "name_id")]
    /\ profile = FullProfile
    /\ field_raised = "none"
    /\ ~classified

\* the hints hold one of the keywords and no rule before the boolean rules
\* matches them
C18_NoEarlierRule ==
    LET words == C15_Words
    IN  \A i \in 1..Len(C15_Rules) :
            C15_Rules[i].boolean_only
                \/ \A alt \in C15_Rules[i].any : ~(alt \subseteq words)

C18_AuthorizedHint ==
    C18_NoEarlierRule /\ C15_Words \cap {"authorized", "eligible"} # {}

C18_SponsorHint ==
    /\ C18_NoEarlierRule
    /\ C15_Words \cap {"authorized", "eligible"} = {}
    /\ C15_Words \cap {"sponsor", "visa"} # {}

\* C18: a checkbox or radio field whose hints hold "authorized" or "eligible"
\* and match no earlier rule is checked exactly when work_authorized is true,
\* and one whose hints hold "sponsor" or "visa" exactly when
\* require_sponsorship is true; for a field of another type these hints give
\* no match and nothing is done.
C18_BooleanRulesCheckByFlag ==
    (/\ call = "_fill_current_form"
     /\ classified
     /\ field_raised = "none"
     /\ C15_Words \cap {"authorized", "eligible", "sponsor", "visa"} # {}) =>
        /\ (C18_AuthorizedHint /\ C15_IsBooleanField) =>
              /\ effect \in {"check", "none"}
              /\ (effect = "check") <=> profile.work_authorized
        /\ (C18_SponsorHint /\ C15_IsBooleanField) =>
              /\ effect \in {"check", "none"}
              /\ (effect = "check") <=> profile.require_sponsorship
        /\ ((C18_AuthorizedHint \/ C18_SponsorHint) /\ ~C15_IsBooleanField) =>
              (value = NoValue /\ effect = "none")

\* hints ("", "workAuthorized", "Are you authorized to work?"), checkbox
C18_Witness ==
    /\ call = "_fill_current_form"
    /\ field.type = "checkbox"
    /\ C15_Words = {"authorized"}
    /\ profile.work_authorized
    /\ value = "true"
    /\ effect = "check"

\* C19: a field for which _get_field_value returns None gets no fill, no
\* check and no upload: no call is made on it at all.
C19_NoMatchLeavesFieldAlone ==
    (call = "_fill_current_form" /\ classified /\ value = NoValue) => effect = "none"

C19_Witness ==
    /\ call = "_fill_current_form"
    /\ field = [type |-> "text", hints |-> Hints({"first"}, "split")]
    /\ profile = FullProfile
    /\ classified
    /\ value = NoValue
    /\ effect = "none"
    /\ field_raised = "none"

C23_AttemptEndsWithinFiveSteps ==
    /\ [](pc \in {"attempt", "returned"} =>
             /\ fills <= 5
             /\ clicks <= 5
             /\ steps_completed <= clicks
             /\ clicks <= fills)
    /\ []((pc = "attempt" /\ wstate = "STEP_ACTIVE") => steps_completed < 5)
    /\ [](pc = "attempt" => wstate \in {"CALLED", "STEP_ACTIVE", "ADVANCING"})
    /\ []((pc = "returned" /\ fills > 0) =>
             wstate \in {"SUCCEEDED", "STALLED", "FAILED"})
    /\ [][(pc = "attempt" /\ pc' = "attempt" /\ wstate # "CALLED") =>
             fills' + steps_completed' = fills + steps_completed + 1]_vars

\* the fifth step is filled and finds no control
C23_Witness ==
    /\ pc = "returned"
    /\ wstate = "STALLED"
    /\ fills = 5
    /\ clicks = 4

\* the cards of a scan window without those whose extraction raises
C27_OtherCards(cards) == SelectSeq(Slice(cards, 20), LAMBDA c : ~c.raises)

C27_IsEligible(card) ==
    /\ card.easy_apply
    /\ card.url.link /\ card.url.view /\ card.url.id # ""
    /\ \A n \in 1..Len(applied_jobs) : applied_jobs[n].job_id # card.url.id

\* C27: when the extraction of a card of the scan window raises, discovery
\* returns what it would return for the window without that card: every
\* other card is evaluated, and the candidates before and after it are
\* returned in scan order.
C27_FailingCardSkipped ==
    (pc = "searched" /\ \E k \in 1..Len(job_cards) : k <= 20 /\ job_cards[k].raises) =>
        LET others == SelectSeq(C27_OtherCards(job_cards), C27_IsEligible)
        IN  jobs = [n \in 1..Len(others) |-> [job_id |-> others[n].url.id]]

\* the 19th card raises, the 20th is a candidate
C27_Witness ==
    /\ pc = "searched"
    /\ Len(job_cards) = 20
    /\ job_cards[19].raises
    /\ jobs = <<[job_id |-> "77"]>>

\* C28: an attempt never makes a sixth pass or a sixth click, and the fifth
\* click may be the terminal one: an attempt whose fifth completed step was a
\* click on "Submit application" or "Submit" has returned SUCCEEDED with
\* exactly one record appended, the one of its job.
C28_FifthActivationMayBeTerminal ==
    /\ pc \in {"attempt", "returned"} => (fills < 6 /\ clicks < 6)
    /\ (/\ pc = "returned"
        /\ steps_completed = 5
        /\ button_label \in {"Submit application", "Submit"}) =>
          /\ wstate = "SUCCEEDED"
          /\ result
          /\ Appended = 1
          /\ applied_jobs[Len(applied_jobs)].job_id = jobs[idx].job_id

\* "Next" or "Review" on steps 1 to 4, a Submit on step 5
C28_Witness ==
    /\ pc = "returned"
    /\ wstate = "SUCCEEDED"
    /\ steps_completed = 5
    /\ fills = 5
    /\ clicks = 5
    /\ Appended = 1

\* C29: in a run with a cap of 0 or more, the candidate an attempt is made on
\* is one of the first `cap` discovered, so the attempts of the run never
\* outnumber the cap, whether they succeeded or not.
C29_AttemptsWithinCap ==
    (pc \in {"attempt", "returned"} /\ max_applications >= 0) =>
        /\ idx <= max_applications
        /\ idx <= Len(jobs)
        /\ applications_sent <= idx

\* the cap is used up by a failed attempt while a candidate is left
C29_Witness ==
    /\ pc = "returned"
    /\ ~result
    /\ max_applications = 1
    /\ idx = 1
    /\ applications_sent = 0
    /\ Len(jobs) = 2

\* a text in small letters, for the texts of the profiles
C24_CaseFolded(text) ==
    CASE text \in {"TRUE", "True"} -> "true"
      [] text \in {"YES", "Yes"} -> "yes"
      [] OTHER -> text

\* C24: the form filler checks a field only if it is a checkbox or a radio
\* button and the value resolved for it is, in small letters, "true", "yes"
\* or "1"; on a checkbox or radio button it makes no other call than check,
\* and it has no call that unchecks.
C24_CheckedOnlyForTruthyToken ==
    call = "_fill_current_form" =>
        /\ effect \in {"none", "fill", "check", "upload"}
        /\ effect = "check" =>
              /\ field.type \in {"checkbox", "radio"}
              /\ classified
              /\ C24_CaseFolded(value) \in {"true", "yes", "1"}
        /\ field.type \in {"checkbox", "radio"} => effect \in {"none", "check"}

\* a checkbox with the hint "city" and the city "Yes"
C24_Witness ==
    /\ call = "_fill_current_form"
    /\ field.type = "checkbox"
    /\ C15_Words = {"city"}
    /\ value = "Yes"
    /\ effect = "check"

\* C25: set_input_files is called only on a file field, with a resume_path
\* that is not empty and whose file exists; on a file field whose file is
\* missing no call is made and no error is raised, and the loop goes on to
\* the fields that are left.
C25_UploadOnlyOfExistingResume ==
    call = "_fill_current_form" =>
        /\ effect = "upload" =>
              /\ field.type = "file"
              /\ profile.resume_path # ""
              /\ resume
        /\ (field.type = "file" /\ classified /\ ~(profile.resume_path # "" /\ resume)) =>
              /\ effect = "none"
              /\ field_raised = "none"
              /\ position < inputs_count => ~form_done

\* a file field with a value, resume.pdf is not there, a field is left
C25_Witness ==
    /\ call = "_fill_current_form"
    /\ field.type = "file"
    /\ classified
    /\ value = "I am excited"
    /\ profile.resume_path = "resume.pdf"
    /\ ~resume
    /\ effect = "none"
    /\ position = 1
    /\ inputs_count = 2
    /\ ~form_done

\* the call the form filler is to make on the field for the value resolved
C26_ExpectedEffect ==
    IF value \in {NoValue, ""} THEN "none"
    ELSE IF field.type = "file"
         THEN IF profile.resume_path # "" /\ resume THEN "upload" ELSE "none"
    ELSE IF field.type \in {"checkbox", "radio"}
         THEN IF C24_CaseFolded(value) \in {"true", "yes", "1"} THEN "check" ELSE "none"
    ELSE "fill"

\* C26: a pass of the loop in which reading or filling the field raised an
\* error makes no fill, check or upload; the loop ends only after the last
\* visible field; and a later field of the step, after an error on an earlier
\* one, is skipped or classified by the first matching rule and filled as
\* the form filler does without the error.
C26_ErrorOfOneFieldLeavesTheOthers ==
    call = "_fill_current_form" =>
        /\ field_raised \in {"read", "act"} => effect = "none"
        /\ (form_done /\ field_raised # "enumerate") => position = inputs_count
        /\ (earlier_raised /\ field_raised = "none") =>
              /\ classified = (field.type \notin {"hidden", "submit", "button"})
              /\ classified =>
                    LET first == C15_FirstRule
                    IN  value = IF first = 0 THEN NoValue
                                ELSE C15_AttributeValue(C15_Rules[first].attr)
              /\ effect = C26_ExpectedEffect

\* the email field that comes after a field whose pass raised
C26_Witness ==
    /\ call = "_fill_current_form"
    /\ position = 2
    /\ earlier_raised
    /\ field_raised = "none"
    /\ C15_Words = {"email"}
    /\ value = "ada@example.org"
    /\ effect = "fill"
    /\ form_done

\* C30: whatever the field type, a field whose hints contain "name" gets the
\* first name if they contain "first", else the last name if they contain
\* "last", else the full name; no later rule decides, so the hints "current",
\* "company" and "name" give the full name.
C30_NameHintsResolveToNameRules ==
    (classified /\ "name" \in C15_Words) =>
        value = IF "first" \in C15_Words THEN profile.first_name
                ELSE IF "last" \in C15_Words THEN profile.last_name
                ELSE profile.first_name \o " " \o profile.last_name

\* hints ("currentCompanyName", "current_company_name", "")
C30_Witness ==
    /\ call = "_fill_current_form"
    /\ field.type = "text"
    /\ C15_Words = {"company", "current", "name"}
    /\ profile = FullProfile
    /\ value = "Ada Lovelace"
    /\ effect = "fill"

\* C21: load_profile writes the profile file only when there is none, and
\* then it returns the default profile and the file holds it unless the save
\* failed; a profile file that exists has the same content after load_profile
\* as before, whether the load succeeded or not.
C21_LoadWritesOnlyWhenNoProfileExists ==
    [][run' = run + 1 =>
          IF profile_file.kind = "absent"
          THEN /\ profile' = DefaultProfile
               /\ profile_file' \in {asdict(DefaultProfile), profile_file}
          ELSE profile_file' = profile_file]_<<vars, formVars>>

\* C31: the resume is uploaded only to a field for which a rule of
\* _get_field_value matched and gave a value that is not empty, and only when
\* the resume file exists; a file field whose hints match no rule (none of
\* the rules asks for a resume or CV hint) gets no call, also when the
\* resume file is there.
C31_UploadNeedsClassifiedValue ==
    call = "_fill_current_form" =>
        /\ effect = "upload" =>
              /\ classified
              /\ C15_FirstRule # 0
              /\ value \notin {NoValue, ""}
              /\ resume
        /\ (field.type = "file" /\ C15_FirstRule = 0) => effect = "none"

\* a file field whose hints hold no keyword of a rule, resume.pdf is there
C31_Witness ==
    /\ call = "_fill_current_form"
    /\ field.type = "file"
    /\ C15_Words = {}
    /\ classified
    /\ value = NoValue
    /\ profile.resume_path = "resume.pdf"
    /\ resume
    /\ field_raised = "none"
    /\ effect = "none"

\* C32: when every request has been answered, whatever the order of their
\* steps, the store holds at most one user document for each firebase_uid
\* and at most one profile document for each user.
C32_OneUserAndOneProfilePerIdentity ==
    (\A r \in 1..MaxRequests : requests[r].pc = "done") =>
        /\ \A uid \in Identities :
              Cardinality({u \in users : u.firebase_uid = uid}) <= 1
        /\ \A u \in users :
              Cardinality({p \in profiles : p.user_id = u.id}) <= 1

\* the documents of the three collections that are not the caller's
C33_OfOthers(docs, caller) == {doc \in docs : doc.user_id # caller}

\* the collection a route with an id in its path looks the id up in
C33_Addressed(route) ==
    CASE route \in {"get_template", "update_template", "delete_template"} -> templates
      [] route \in {"get_mapping", "update_mapping", "delete_mapping"} -> mappings
      [] route \in {"get_application", "update_application_status"} -> applications
      [] OTHER -> {}

C33_ById ==
    {"get_template", "update_template", "delete_template", "get_mapping",
     "update_mapping", "delete_mapping", "get_application",
     "update_application_status"}

\* C33: a request leaves the documents of the users other than its caller as
\* they are and returns only documents of its caller; a request that names
\* the id of a document that is not there or is another user's is answered
\* 404 and leaves the three collections as they are.
C33_OnlyTheCallersDocuments ==
    [][served' = served + 1 =>
          LET caller == response'.caller
          IN  /\ C33_OfOthers(templates', caller) = C33_OfOthers(templates, caller)
              /\ C33_OfOthers(mappings', caller) = C33_OfOthers(mappings, caller)
              /\ C33_OfOthers(applications', caller) = C33_OfOthers(applications, caller)
              /\ \A doc \in response'.docs : doc.user_id = caller
              /\ (/\ response'.route \in C33_ById
                  /\ \A doc \in C33_Addressed(response'.route) :
                        doc.id = response'.id => doc.user_id # caller) =>
                    /\ response'.code = 404
                    /\ response'.docs = {}
                    /\ <<templates, mappings, applications>>' =
                          <<templates, mappings, applications>>]_apiVars

\* C34: the status of every application of the store is "applied",
\* "reviewed", "interview", "rejected" or "offer".
C34_StoredStatusIsOneOfFive ==
    \A a \in applications :
        a.status \in {"applied", "reviewed", "interview", "rejected", "offer"}
====
